---- MODULE Spec2Model ----
(***************************************************************************)
(* DoubleAuction (src/llm_agents/auction.py): the round loop run_auction,  *)
(* the matching engine match_orders, settlement execute_trades and the     *)
(* market information _get_market_info.                                    *)
(*                                                                         *)
(* Money is counted in half ticks: an order's price, value or cost is a    *)
(* whole number of ticks, hence an even number here, so that the true      *)
(* division by 2 of the midpoint is exact.  An average of prices is a      *)
(* fraction [num, den] in lowest terms.                                    *)
(***************************************************************************)
EXTENDS Integers, Sequences, FiniteSets, TLC

\* ------------------------------------------------------------------ bounds
MaxRounds == 2      \* max_rounds ranges over 0..MaxRounds
MaxCalls == 2       \* calls of run_auction in one behaviour
MaxBook == 2        \* orders per side handed to match_orders in SpecMatch

\* ------------------------------------------------------- the environment
Buyers == <<"B1", "B2">>
Sellers == <<"S1", "S2">>

\* preference_schedule.get_value(1) of each participant
FirstUnitValue(a) ==
    CASE a = "B1" -> 6
      [] a = "B2" -> 4
      [] a = "S1" -> 2
      [] a = "S2" -> 4

\* environment.agents, the ids get_agent knows
Agents == {Buyers[i] : i \in DOMAIN Buyers} \cup {Sellers[i] : i \in DOMAIN Sellers}

\* preference_schedule.values of a buyer: the value of unit 1, 2, ...
PreferenceValues(b) == IF b = "B1" THEN <<6, 6>> ELSE <<4, 2>>

\* allocation.goods of each participant when the auction is constructed
InitialGoods(a) ==
    CASE a = "B1" -> 1
      [] a = "B2" -> 0
      [] a = "S1" -> 2
      [] a = "S2" -> 1

NoValue == "none"

Order(id, p, q, v, c, tag) ==
    [agent_id |-> id, price |-> p, quantity |-> q,
     base_value |-> v, base_cost |-> c, oid |-> tag]

\* The orders generate_bid of a buyer may return in round r.  oid is the
\* identity of the order object (the round and the agent that made it).  Two
\* asks of S2 carry an agent_id that is not an agent of the environment.
BidChoices(b, r) ==
    IF b = "B1"
    THEN {Order(b, 6, 2, 6, NoValue, <<r, b>>), Order(b, 4, 1, 2, NoValue, <<r, b>>)}
    ELSE {Order(b, 6, 1, 6, NoValue, <<r, b>>), Order(b, 2, 1, 4, NoValue, <<r, b>>)}

AskChoices(s, r) ==
    IF s = "S1"
    THEN {Order(s, 4, 2, NoValue, 2, <<r, s>>), Order(s, 2, 2, NoValue, 6, <<r, s>>)}
    ELSE {Order(s, 2, 1, NoValue, 2, <<r, s>>), Order(s, 6, 1, NoValue, 4, <<r, s>>),
          Order("S9", 2, 1, NoValue, 2, <<r, s>>),
          Order("S9", 4, 1, NoValue, 2, <<r, s>>)}

\* --------------------------------------------------------------- the state
\* The fields of the DoubleAuction object (max_rounds .. trade_counter); the
\* position pc of the thread of control in run_auction ("idle" before the
\* first call, "returned" after a call, "aborted" once a call it made
\* raised) and its local variables round_num, market_info, bids, asks, trades
\* and idx (the agent the collecting loop is at); and the history the claims
\* read: matched (the bid and the ask popped for each trade formed), book_in
\* (the lists last handed to match_orders), rounds_run (the round numbers
\* begun), summaries (calls of summarize_results) and calls (of run_auction).
\* goods is allocation.goods of every agent and finalized the calls of
\* finalize_trade, in order.  handed lists the generate_bid calls of the round
\* in progress with the market information each was given, raised names the
\* call whose exception left run_auction, round_start holds the fields as
\* they were when the round in progress began, and warned tells whether a
\* summary printed the negative-surplus warning.
VARIABLES
    max_rounds, current_round, successful_trades, total_surplus_extracted,
    average_prices, order_book, trade_history, trade_counter,
    pc, round_num, market_info, bids, asks, trades, idx,
    matched, book_in, rounds_run, summaries, calls,
    goods, finalized, handed, raised, round_start, warned

fields == <<max_rounds, current_round, successful_trades, total_surplus_extracted,
            average_prices, order_book, trade_history, trade_counter>>
locals == <<round_num, market_info, bids, asks, trades, idx>>
ghosts == <<matched, book_in, rounds_run, summaries>>
holdings == <<goods, finalized>>
trace == <<handed, raised, round_start, warned>>
vars == <<fields, locals, ghosts, pc, calls, holdings, trace>>

\* ---------------------------------------------------------------- helpers
Min(a, b) == IF a <= b THEN a ELSE b

RECURSIVE Gcd(_, _)
Gcd(a, b) == IF b = 0 THEN a ELSE Gcd(b, a % b)

\* the fraction n/d (n >= 0, d > 0) in lowest terms
Rat(n, d) == LET g == Gcd(n, d) IN [num |-> n \div g, den |-> d \div g]

None == [num |-> 0, den |-> 0]

NoBook == [bids |-> <<>>, asks |-> <<>>]

Range(s) == {s[i] : i \in DOMAIN s}

RECURSIVE Sum(_)
Sum(s) == IF s = <<>> THEN 0 ELSE Head(s) + Sum(Tail(s))

\* x or y of Python: y when x is None or zero
OrElse(x, y) == IF x = None \/ x.num = 0 THEN y ELSE x

\* ------------------------------------------------------------ match_orders
\* list.sort is stable, and stays stable under reverse=True: an order is put
\* behind every order already placed whose price is at least (at most) its own.
RECURSIVE InsertBidUnstable(_, _)
InsertBidUnstable(s, x) ==
    IF s = <<>> THEN <<x>>
    ELSE IF Head(s).price > x.price THEN <<Head(s)>> \o InsertBidUnstable(Tail(s), x)
    ELSE <<x>> \o s

RECURSIVE InsertBid(_, _)
InsertBid(s, x) ==
    IF s = <<>> THEN <<x>>
    ELSE IF Head(s).price >= x.price THEN <<Head(s)>> \o InsertBid(Tail(s), x)
    ELSE <<x>> \o s

RECURSIVE SortBids(_)
SortBids(s) ==
    IF s = <<>> THEN <<>>
    ELSE InsertBid(SortBids(SubSeq(s, 1, Len(s) - 1)), s[Len(s)])

RECURSIVE InsertAsk(_, _)
InsertAsk(s, x) ==
    IF s = <<>> THEN <<x>>
    ELSE IF Head(s).price <= x.price THEN <<Head(s)>> \o InsertAsk(Tail(s), x)
    ELSE <<x>> \o s

RECURSIVE SortAsks(_)
SortAsks(s) ==
    IF s = <<>> THEN <<>>
    ELSE InsertAsk(SortAsks(SubSeq(s, 1, Len(s) - 1)), s[Len(s)])

CrossesAlways(bs, as) == bs # <<>> /\ as # <<>>

CrossesStrict(bs, as) == bs # <<>> /\ as # <<>> /\ Head(bs).price > Head(as).price

\* the loop condition: both lists non-empty and the best bid clears the best ask
Crosses(bs, as) == bs # <<>> /\ as # <<>> /\ Head(bs).price >= Head(as).price

TradePriceFloor(bid, ask) == ((bid.price + ask.price) \div 4) * 2

\* (bid.price + ask.price) / 2
TradePrice(bid, ask) == (bid.price + ask.price) \div 2

TradeQuantityOfBid(bid, ask) == bid.quantity

TradeQuantity(bid, ask) == Min(bid.quantity, ask.quantity)

MakeTrade(bid, ask, tc, rn) ==
    [trade_id |-> tc, buyer_id |-> bid.agent_id, seller_id |-> ask.agent_id,
     quantity |-> TradeQuantity(bid, ask), price |-> TradePrice(bid, ask),
     buyer_value |-> bid.base_value, seller_cost |-> ask.base_cost, round |-> rn]

BookEntryPerUnit(trade) ==
    [price |-> trade.price, shares |-> trade.quantity, total |-> trade.price]

BookEntry(trade) ==
    [price |-> trade.price, shares |-> trade.quantity,
     total |-> trade.price * trade.quantity]

NextCounterStuck(tc) == tc

\* self.trade_counter += 1
NextCounter(tc) == tc + 1

\* The while loop on the sorted lists bs and as, the counter at tc: the trades
\* formed, what is left of the two lists, the counter and the new log entries.
\* pairs records the bid and the ask popped for each trade.
RECURSIVE MatchLoop(_, _, _, _)
MatchLoop(bs, as, tc, rn) ==
    IF Crosses(bs, as)
    THEN LET bid == Head(bs)
             ask == Head(as)
             trade == MakeTrade(bid, ask, tc, rn)
             rest == MatchLoop(Tail(bs), Tail(as), NextCounter(tc), rn)
         IN  [trades |-> <<trade>> \o rest.trades,
              bids |-> rest.bids, asks |-> rest.asks,
              counter |-> rest.counter,
              book |-> <<BookEntry(trade)>> \o rest.book,
              pairs |-> <<[bid |-> bid, ask |-> ask, trade |-> trade]>> \o rest.pairs]
    ELSE [trades |-> <<>>, bids |-> bs, asks |-> as, counter |-> tc,
          book |-> <<>>, pairs |-> <<>>]

match_orders(bs, as, tc, rn) == MatchLoop(SortBids(bs), SortAsks(as), tc, rn)

\* ---------------------------------------------------------- execute_trades
BuyerSurplus(trade) == trade.buyer_value - trade.price
SellerSurplus(trade) == trade.price - trade.seller_cost

RejectedBuyerOnly(trade) == BuyerSurplus(trade) < 0

Rejected(trade) == BuyerSurplus(trade) < 0 \/ SellerSurplus(trade) < 0

\* environment.get_agent raises for an id that is not an agent's
LookupFails(trade) == trade.buyer_id \notin Agents \/ trade.seller_id \notin Agents

\* agent.finalize_trade(trade) on the holdings g: the buyer is credited the
\* goods of the trade, the seller debited
finalize_trade(g, agent, trade) ==
    [g EXCEPT ![agent] = IF agent = trade.buyer_id THEN @ + trade.quantity
                         ELSE @ - trade.quantity]

FinalizeCall(agent, trade) == [agent |-> agent, trade_id |-> trade.trade_id]

SettledPerUnit(acc, trade) ==
    [acc EXCEPT
        !.finalized = @ \o <<FinalizeCall(trade.buyer_id, trade),
                             FinalizeCall(trade.seller_id, trade)>>,
        !.goods = finalize_trade(finalize_trade(@, trade.buyer_id, trade),
                                 trade.seller_id, trade),
        !.total = @ + (BuyerSurplus(trade) + SellerSurplus(trade)) * trade.quantity,
        !.prices = Append(@, trade.price),
        !.successful = Append(@, trade),
        !.history = Append(@, trade)]

Settled(acc, trade) ==
    [acc EXCEPT
        !.finalized = @ \o <<FinalizeCall(trade.buyer_id, trade),
                             FinalizeCall(trade.seller_id, trade)>>,
        !.goods = finalize_trade(finalize_trade(@, trade.buyer_id, trade),
                                 trade.seller_id, trade),
        !.total = @ + BuyerSurplus(trade) + SellerSurplus(trade),
        !.prices = Append(@, trade.price),
        !.successful = Append(@, trade),
        !.history = Append(@, trade)]

SettleOnePriceFirst(acc, trade) ==
    IF Rejected(trade) THEN [acc EXCEPT !.prices = Append(@, trade.price)]
    ELSE Settled(acc, trade)

SettleOneFinalizeFirst(acc, trade) ==
    IF Rejected(trade)
    THEN [acc EXCEPT !.finalized = @ \o <<FinalizeCall(trade.buyer_id, trade),
                                          FinalizeCall(trade.seller_id, trade)>>]
    ELSE Settled(acc, trade)

\* one iteration of the loop over trades, both agents found
SettleOne(acc, trade) ==
    IF Rejected(trade) THEN acc ELSE Settled(acc, trade)

RECURSIVE SettleAllSkipUnknown(_, _)
SettleAllSkipUnknown(acc, ts) ==
    IF ts = <<>> THEN acc
    ELSE IF LookupFails(Head(ts)) THEN SettleAllSkipUnknown(acc, Tail(ts))
    ELSE SettleAllSkipUnknown(SettleOne(acc, Head(ts)), Tail(ts))

RECURSIVE SettleAllBreakOnReject(_, _)
SettleAllBreakOnReject(acc, ts) ==
    IF ts = <<>> THEN acc
    ELSE IF LookupFails(Head(ts)) THEN [acc EXCEPT !.raised = "get_agent"]
    ELSE IF Rejected(Head(ts)) THEN acc
    ELSE SettleAllBreakOnReject(SettleOne(acc, Head(ts)), Tail(ts))

\* the loop over trades: it ends at the first trade whose lookup raises
RECURSIVE SettleAll(_, _)
SettleAll(acc, ts) ==
    IF ts = <<>> THEN acc
    ELSE IF LookupFails(Head(ts)) THEN [acc EXCEPT !.raised = "get_agent"]
    ELSE SettleAll(SettleOne(acc, Head(ts)), Tail(ts))

\* -------------------------------------------------------- _get_market_info
RECURSIVE MaxOf(_)
MaxOf(s) == IF Len(s) = 1 THEN s[1]
            ELSE LET m == MaxOf(Tail(s)) IN IF s[1] >= m THEN s[1] ELSE m

RECURSIVE MinOf(_)
MinOf(s) == IF Len(s) = 1 THEN s[1]
            ELSE LET m == MinOf(Tail(s)) IN IF s[1] <= m THEN s[1] ELSE m

BuyerBaseValueMin == MinOf([i \in DOMAIN Buyers |-> FirstUnitValue(Buyers[i])])

BuyerBaseValue == MaxOf([i \in DOMAIN Buyers |-> FirstUnitValue(Buyers[i])])
SellerBaseValue == MinOf([i \in DOMAIN Sellers |-> FirstUnitValue(Sellers[i])])

InitialPriceEstimate == Rat(BuyerBaseValue + SellerBaseValue, 2)

get_market_info_first(prices, successful, cr) ==
    LET last == IF prices # <<>> THEN Rat(prices[1], 1) ELSE None
        avg == IF prices # <<>> THEN Rat(Sum(prices), Len(prices)) ELSE None
        fallback == last = None \/ avg = None
    IN  [last_trade_price |-> IF fallback THEN OrElse(last, InitialPriceEstimate) ELSE last,
         average_price |-> IF fallback THEN OrElse(avg, InitialPriceEstimate) ELSE avg,
         total_trades |-> Len(successful),
         current_round |-> cr]

get_market_info(prices, successful, cr) ==
    LET last == IF prices # <<>> THEN Rat(prices[Len(prices)], 1) ELSE None
        avg == IF prices # <<>> THEN Rat(Sum(prices), Len(prices)) ELSE None
        fallback == last = None \/ avg = None
    IN  [last_trade_price |-> IF fallback THEN OrElse(last, InitialPriceEstimate) ELSE last,
         average_price |-> IF fallback THEN OrElse(avg, InitialPriceEstimate) ELSE avg,
         total_trades |-> Len(successful),
         current_round |-> cr]

\* ------------------------------------------------------------- run_auction
\* the fields a round may change, as a record
Snapshot(successful, total, prices, book, history, counter) ==
    [successful_trades |-> successful, total_surplus_extracted |-> total,
     average_prices |-> prices, order_book |-> book, trade_history |-> history,
     trade_counter |-> counter]

NoSnapshot == Snapshot(<<>>, 0, <<>>, <<>>, <<>>, 0)

Init ==
    /\ max_rounds \in 0..MaxRounds
    /\ current_round = 0
    /\ successful_trades = <<>>
    /\ total_surplus_extracted = 0
    /\ average_prices = <<>>
    /\ order_book = <<>>
    /\ trade_history = <<>>
    /\ trade_counter = 0
    /\ pc = "idle"
    /\ round_num = 0
    /\ market_info = None
    /\ bids = <<>>
    /\ asks = <<>>
    /\ trades = <<>>
    /\ idx = 0
    /\ matched = <<>>
    /\ book_in = NoBook
    /\ rounds_run = <<>>
    /\ summaries = 0
    /\ calls = 0
    /\ goods = [a \in Agents |-> InitialGoods(a)]
    /\ finalized = <<>>
    /\ handed = <<>>
    /\ raised = "none"
    /\ round_start = NoSnapshot
    /\ warned = FALSE

MaxRoundsReachedLate == current_round > max_rounds + 1

\* if self.current_round >= self.max_rounds: return
MaxRoundsReached == current_round >= max_rounds

\* A call of run_auction, up to the first iteration of its loop.
RunAuction ==
    /\ pc \in {"idle", "returned"}
    /\ calls < MaxCalls
    /\ calls' = calls + 1
    /\ IF MaxRoundsReached
       THEN /\ pc' = "returned"
            /\ UNCHANGED <<fields, locals, ghosts, holdings, trace>>
       ELSE /\ round_num' = current_round + 1
            /\ pc' = IF current_round + 1 <= max_rounds THEN "round" ELSE "summarize"
            /\ UNCHANGED <<fields, market_info, bids, asks, trades, idx, ghosts,
                           holdings, trace>>

\* The head of the loop body: the round number, the market information and
\* the empty bid list.
BeginRound ==
    /\ pc = "round"
    /\ current_round' = round_num
    /\ market_info' = get_market_info(average_prices, successful_trades, round_num)
    /\ bids' = <<>>
    /\ idx' = 1
    /\ pc' = "bids"
    /\ rounds_run' = Append(rounds_run, round_num)
    /\ handed' = <<>>
    /\ round_start' = Snapshot(successful_trades, total_surplus_extracted,
                               average_prices, order_book, trade_history,
                               trade_counter)
    /\ UNCHANGED <<max_rounds, successful_trades, total_surplus_extracted,
                   average_prices, order_book, trade_history, trade_counter,
                   round_num, asks, trades, matched, book_in, summaries, calls,
                   holdings, raised, warned>>

BuyerEligibleByUnits(b) == goods[b] < Len(PreferenceValues(b))

\* allocation.goods < preference_schedule.values.get(len(values), 0): the
\* goods held against the value of the last unit (a value v is v / 2 ticks)
BuyerEligible(b) == 2 * goods[b] < PreferenceValues(b)[Len(PreferenceValues(b))]

\* allocation.goods > 0
SellerEligible(s) == goods[s] > 0

AfterRaiseSkipsRound == "advance"

\* run_auction catches nothing: an exception of a call it makes leaves it
AfterRaise == "aborted"

\* generate_bid(market_info) is called on the agent
Hand(agent) == handed' = Append(handed, [agent |-> agent, info |-> market_info])

\* after the last buyer the ask list is emptied and the sellers are asked
AfterBuyer ==
    IF idx = Len(Buyers)
    THEN pc' = "asks" /\ idx' = 1 /\ asks' = <<>>
    ELSE pc' = "bids" /\ idx' = idx + 1 /\ asks' = asks

\* One buyer of the loop over environment.buyers: not eligible, or asked
\* and no bid returned, a bid returned, or generate_bid raising.
CollectBid ==
    /\ pc = "bids"
    /\ IF BuyerEligible(Buyers[idx])
       THEN /\ Hand(Buyers[idx])
            /\ \/ /\ AfterBuyer
                  /\ UNCHANGED <<bids, raised>>
               \/ /\ \E bid \in BidChoices(Buyers[idx], round_num) :
                        bids' = Append(bids, bid)
                  /\ AfterBuyer
                  /\ UNCHANGED raised
               \/ /\ pc' = AfterRaise
                  /\ raised' = "generate_bid"
                  /\ UNCHANGED <<bids, asks, idx>>
       ELSE /\ AfterBuyer
            /\ UNCHANGED <<bids, handed, raised>>
    /\ UNCHANGED <<fields, round_num, market_info, trades, ghosts, calls,
                   holdings, round_start, warned>>

AfterSeller ==
    IF idx = Len(Sellers)
    THEN pc' = "match" /\ idx' = 0
    ELSE pc' = "asks" /\ idx' = idx + 1

\* One seller of the loop over environment.sellers.
CollectAsk ==
    /\ pc = "asks"
    /\ IF SellerEligible(Sellers[idx])
       THEN /\ Hand(Sellers[idx])
            /\ \/ /\ AfterSeller
                  /\ UNCHANGED <<asks, raised>>
               \/ /\ \E ask \in AskChoices(Sellers[idx], round_num) :
                        asks' = Append(asks, ask)
                  /\ AfterSeller
                  /\ UNCHANGED raised
               \/ /\ pc' = AfterRaise
                  /\ raised' = "generate_bid"
                  /\ UNCHANGED <<asks, idx>>
       ELSE /\ AfterSeller
            /\ UNCHANGED <<asks, handed, raised>>
    /\ UNCHANGED <<fields, round_num, market_info, bids, trades, ghosts, calls,
                   holdings, round_start, warned>>

\* trades = self.match_orders(bids, asks, round_num); if trades: ...
MatchOrders ==
    /\ pc = "match"
    /\ LET m == match_orders(bids, asks, trade_counter, round_num)
       IN  /\ trades' = m.trades
           /\ bids' = m.bids
           /\ asks' = m.asks
           /\ trade_counter' = m.counter
           /\ order_book' = order_book \o m.book
           /\ matched' = matched \o m.pairs
           /\ book_in' = [bids |-> bids, asks |-> asks]
           /\ pc' = IF m.trades # <<>> THEN "settle" ELSE "advance"
    /\ UNCHANGED <<max_rounds, current_round, successful_trades,
                   total_surplus_extracted, average_prices, trade_history,
                   round_num, market_info, idx, rounds_run, summaries, calls,
                   holdings, trace>>

\* self.execute_trades(trades)
ExecuteTrades ==
    /\ pc = "settle"
    /\ LET acc == SettleAll([total |-> total_surplus_extracted,
                             prices |-> average_prices,
                             successful |-> successful_trades,
                             history |-> trade_history,
                             finalized |-> finalized,
                             goods |-> goods,
                             raised |-> raised], trades)
       IN  /\ total_surplus_extracted' = acc.total
           /\ average_prices' = acc.prices
           /\ successful_trades' = acc.successful
           /\ trade_history' = acc.history
           /\ finalized' = acc.finalized
           /\ goods' = acc.goods
           /\ raised' = acc.raised
           /\ pc' = IF acc.raised = "none" THEN "advance" ELSE AfterRaise
    /\ UNCHANGED <<max_rounds, current_round, order_book, trade_counter,
                   locals, ghosts, calls, handed, round_start, warned>>

LoopEndsEarly == round_num + 1 < max_rounds

\* range(self.current_round + 1, self.max_rounds + 1) has a value after round_num
LoopContinues == round_num < max_rounds

\* self.current_round += 1, then the next value of range(...) or the end of
\* the loop.  The lists of the finished iteration are dead from here on.
AdvanceRound ==
    /\ pc = "advance"
    /\ current_round' = current_round + 1
    /\ bids' = <<>>
    /\ asks' = <<>>
    /\ trades' = <<>>
    /\ book_in' = NoBook
    /\ handed' = <<>>
    /\ round_start' = NoSnapshot
    /\ IF LoopContinues
       THEN round_num' = round_num + 1 /\ pc' = "round"
       ELSE round_num' = round_num /\ pc' = "summarize"
    /\ UNCHANGED <<max_rounds, successful_trades, total_surplus_extracted,
                   average_prices, order_book, trade_history, trade_counter,
                   market_info, idx, matched, rounds_run, summaries, calls,
                   holdings, raised, warned>>

\* if self.total_surplus_extracted < 0: print("Warning: ...")
NegativeSurplusWarning == total_surplus_extracted < 0

\* self.summarize_results(), and the return of run_auction
SummarizeResults ==
    /\ pc = "summarize"
    /\ summaries' = summaries + 1
    /\ warned' = (warned \/ NegativeSurplusWarning)
    /\ pc' = "returned"
    /\ UNCHANGED <<fields, locals, matched, book_in, rounds_run, calls,
                   holdings, handed, raised, round_start>>

Next ==
    \/ RunAuction
    \/ BeginRound
    \/ CollectBid
    \/ CollectAsk
    \/ MatchOrders
    \/ ExecuteTrades
    \/ AdvanceRound
    \/ SummarizeResults

Spec == Init /\ [][Next]_vars

\* The steps of a call in progress.
RunSteps ==
    \/ BeginRound
    \/ CollectBid
    \/ CollectAsk
    \/ MatchOrders
    \/ ExecuteTrades
    \/ AdvanceRound
    \/ SummarizeResults

\* ------------------------------------------------- match_orders on any lists
\* match_orders and execute_trades applied to every pair of lists of at most
\* MaxBook orders, in any round of an auction that has formed no trade yet.
Prices == {2, 4, 6}
Quantities == {1, 2}
Values == {4}

BidBooks ==
    UNION {{[i \in 1..n |->
                Order(Buyers[((i - 1) % Len(Buyers)) + 1], f[i][1], f[i][2], f[i][3],
                      NoValue, <<"bid", i>>)] :
            f \in [1..n -> Prices \X Quantities \X Values]} : n \in 0..MaxBook}

AskBooks ==
    UNION {{[i \in 1..n |->
                Order(Sellers[((i - 1) % Len(Sellers)) + 1], f[i][1], f[i][2], NoValue,
                      f[i][3], <<"ask", i>>)] :
            f \in [1..n -> Prices \X Quantities \X Values]} : n \in 0..MaxBook}

InitMatch ==
    /\ max_rounds = MaxRounds
    /\ round_num \in 1..MaxRounds
    /\ current_round = round_num
    /\ successful_trades = <<>>
    /\ total_surplus_extracted = 0
    /\ average_prices = <<>>
    /\ order_book = <<>>
    /\ trade_history = <<>>
    /\ trade_counter = 0
    /\ pc = "match"
    /\ market_info = get_market_info(<<>>, <<>>, round_num)
    /\ bids \in BidBooks
    /\ asks \in AskBooks
    /\ trades = <<>>
    /\ idx = 0
    /\ matched = <<>>
    /\ book_in = NoBook
    /\ rounds_run = [i \in 1..round_num |-> i]
    /\ summaries = 0
    /\ calls = 1
    /\ goods = [a \in Agents |-> InitialGoods(a)]
    /\ finalized = <<>>
    /\ handed = <<>>
    /\ raised = "none"
    /\ round_start = NoSnapshot
    /\ warned = FALSE

NextMatch ==
    \/ MatchOrders
    \/ ExecuteTrades

SpecMatch == InitMatch /\ [][NextMatch]_vars

\* ------------------------------------------------------------------ claims

\* C1: for every trade formed by match_orders, the matched bid's price is at
\* least the matched ask's price and the execution price is exactly the
\* midpoint of the two, so it lies between the ask price and the bid price.
PricePriority ==
    \A i \in DOMAIN matched :
        LET m == matched[i]
        IN  /\ m.bid.price >= m.ask.price
            /\ 2 * m.trade.price = m.bid.price + m.ask.price
            /\ m.ask.price <= m.trade.price
            /\ m.trade.price <= m.bid.price

\* two trades formed by one call, one of them at a price strictly between
PricePriorityWitness ==
    /\ Len(matched) = 2
    /\ \E i \in DOMAIN matched :
          /\ matched[i].ask.price < matched[i].trade.price
          /\ matched[i].trade.price < matched[i].bid.price

\* the i-th highest bid price and the i-th lowest ask price of a list, by
\* counting the orders that are strictly better
NthHighest(s, i) ==
    CHOOSE p \in {s[j].price : j \in DOMAIN s} :
        /\ Cardinality({j \in DOMAIN s : s[j].price > p}) < i
        /\ i <= Cardinality({j \in DOMAIN s : s[j].price >= p})

NthLowest(s, i) ==
    CHOOSE p \in {s[j].price : j \in DOMAIN s} :
        /\ Cardinality({j \in DOMAIN s : s[j].price < p}) < i
        /\ i <= Cardinality({j \in DOMAIN s : s[j].price <= p})

ClearsUpTo(bs, as, k) == \A i \in 1..k : NthHighest(bs, i) >= NthLowest(as, i)

ClearingCount(bs, as) ==
    CHOOSE k \in 0..Min(Len(bs), Len(as)) :
        /\ ClearsUpTo(bs, as, k)
        /\ \A k2 \in (k + 1)..Min(Len(bs), Len(as)) : ~ClearsUpTo(bs, as, k2)

Unmatched(in) == {o \in Range(in) : \A i \in DOMAIN matched :
                      matched[i].bid.oid # o.oid /\ matched[i].ask.oid # o.oid}

\* C2: once match_orders has returned, its trades pair the i-th highest bid
\* with the i-th lowest ask for exactly i = 1..k, k the largest number such that
\* every i <= k clears; there is no other trade, and either a side is used up
\* or no unmatched bid has a price >= an unmatched ask.
MatchesExactlyClearing ==
    pc \in {"settle", "advance"} =>
        LET k == ClearingCount(book_in.bids, book_in.asks)
        IN  /\ Len(trades) = k
            /\ Len(matched) = k
            /\ Len(order_book) = k
            /\ \A i \in 1..k :
                  /\ matched[i].trade = trades[i]
                  /\ matched[i].bid \in Range(book_in.bids)
                  /\ matched[i].ask \in Range(book_in.asks)
                  /\ matched[i].bid.price = NthHighest(book_in.bids, i)
                  /\ matched[i].ask.price = NthLowest(book_in.asks, i)
                  /\ trades[i].buyer_id = matched[i].bid.agent_id
                  /\ trades[i].seller_id = matched[i].ask.agent_id
            /\ Range(bids) = Unmatched(book_in.bids)
            /\ Range(asks) = Unmatched(book_in.asks)
            /\ \/ Unmatched(book_in.bids) = {}
               \/ Unmatched(book_in.asks) = {}
               \/ \A b \in Unmatched(book_in.bids), a \in Unmatched(book_in.asks) :
                      b.price < a.price

\* the example of two bids and two asks of which only the best pair clears
MatchesExactlyClearingWitness ==
    /\ pc = "settle"
    /\ Len(book_in.bids) = 2
    /\ Len(book_in.asks) = 2
    /\ Len(trades) = 1
    /\ Len(bids) = 1
    /\ Len(asks) = 1

\* C3: a trade's quantity is the minimum of the quantities of its two orders;
\* no order is in two trades; a matched order is gone from its list whole; and
\* an order is matched only in the round it was collected in.
QuantityAndSingleUse ==
    /\ \A i \in DOMAIN matched :
          LET m == matched[i]
          IN  /\ m.trade.quantity = Min(m.bid.quantity, m.ask.quantity)
              /\ m.trade.quantity <= m.bid.quantity
              /\ m.trade.quantity <= m.ask.quantity
              /\ m.bid.oid[1] = m.trade.round
              /\ m.ask.oid[1] = m.trade.round
              /\ \A j \in DOMAIN bids : bids[j].oid # m.bid.oid
              /\ \A j \in DOMAIN asks : asks[j].oid # m.ask.oid
    /\ \A i, j \in DOMAIN matched :
          i # j => /\ matched[i].bid.oid # matched[j].bid.oid
                   /\ matched[i].ask.oid # matched[j].ask.oid

\* trades in two rounds, one of them for less than the quantity of its bid,
\* and an order of the first round left unmatched
QuantityAndSingleUseWitness ==
    /\ \E i \in DOMAIN matched :
          /\ matched[i].trade.round = 1
          /\ matched[i].trade.quantity < matched[i].bid.quantity
    /\ \E i \in DOMAIN matched : matched[i].trade.round = 2
    /\ current_round = 2
    /\ pc = "settle"

\* C4: every trade in successful_trades leaves the buyer and the seller a
\* surplus that is not negative.
NonNegativeSurplus ==
    \A i \in DOMAIN successful_trades :
        LET t == successful_trades[i]
        IN  t.buyer_value - t.price >= 0 /\ t.price - t.seller_cost >= 0

\* settlement has kept one trade of a list and rejected another
NonNegativeSurplusWitness ==
    /\ pc = "advance"
    /\ Len(trades) = 2
    /\ Len(successful_trades) = 1
    /\ \E i \in DOMAIN trades : trades[i].price - trades[i].seller_cost < 0

\* C5: the trade ids of successful_trades, read in order, strictly increase.
TradeIdsIncrease ==
    \A i, j \in DOMAIN successful_trades :
        i < j => successful_trades[i].trade_id < successful_trades[j].trade_id

\* settled trades of two rounds with a rejected trade between them
TradeIdsIncreaseWitness ==
    /\ Len(successful_trades) >= 2
    /\ successful_trades[1].round = 1
    /\ successful_trades[Len(successful_trades)].round = 2
    /\ \E i \in 1..(Len(successful_trades) - 1) :
          successful_trades[i + 1].trade_id > successful_trades[i].trade_id + 1

\* C6: successful_trades and average_prices have the same length, and the
\* i-th average_prices entry is the price of the i-th successful trade.
HistoryConsistency ==
    /\ Len(successful_trades) = Len(average_prices)
    /\ \A i \in DOMAIN successful_trades :
          average_prices[i] = successful_trades[i].price

\* execute_trades has just returned from a list with a rejected trade, with
\* trades settled before
HistoryConsistencyWitness ==
    /\ pc = "advance"
    /\ current_round = 2
    /\ Len(successful_trades) >= 2
    /\ \E i \in DOMAIN trades : Rejected(trades[i])

\* C7: once a call of run_auction has returned, a further call changes
\* nothing: no field of the auction, no order asked for, no trade formed or
\* settled, no summary.
NoOpAfterCompletion ==
    [][pc = "returned" =>
          /\ pc' = "returned"
          /\ UNCHANGED <<fields, locals, ghosts, holdings, trace>>]_vars

\* a second call made after a run of two rounds that settled a trade
NoOpAfterCompletionWitness ==
    /\ pc = "returned"
    /\ calls = 2
    /\ max_rounds = 2
    /\ successful_trades # <<>>
    /\ summaries = 1

\* C8: after the loop of run_auction has ended, current_round <= max_rounds.
RoundWithinMax ==
    pc \in {"summarize", "returned"} => current_round <= max_rounds

\* the legal successions of the steps of a round, and the run's result
StepOrder ==
    /\ pc = "idle" => pc' \in {"round", "returned"}
    /\ pc = "round" =>
          /\ pc' = "bids"
          /\ rounds_run' = Append(rounds_run, Len(rounds_run) + 1)
          /\ current_round' = Len(rounds_run) + 1
          /\ market_info' = get_market_info(average_prices, successful_trades,
                                            Len(rounds_run) + 1)
          /\ bids' = <<>>
    /\ pc = "bids" =>
          /\ pc' \in {"bids", "asks", "aborted"}
          /\ pc' = "asks" => idx = Len(Buyers) /\ asks' = <<>>
          /\ pc' = "bids" => idx' = idx + 1
    /\ pc = "asks" =>
          /\ pc' \in {"asks", "match", "aborted"}
          /\ bids' = bids
          /\ pc' = "match" => idx = Len(Sellers)
          /\ pc' = "asks" => idx' = idx + 1
    /\ pc = "match" => pc' = IF trades' # <<>> THEN "settle" ELSE "advance"
    /\ pc = "settle" => pc' \in {"advance", "aborted"} /\ trades # <<>>
    /\ pc = "advance" =>
          pc' = IF Len(rounds_run) < max_rounds THEN "round" ELSE "summarize"
    /\ pc = "summarize" => pc' = "returned"
    /\ summaries' # summaries =>
          /\ pc = "summarize"
          /\ summaries' = summaries + 1
          /\ rounds_run = [i \in 1..max_rounds |-> i]
    /\ (trade_counter' # trade_counter \/ order_book' # order_book) => pc = "match"
    /\ (successful_trades' # successful_trades
            \/ average_prices' # average_prices) => pc = "settle"

\* a call of run_auction is in progress
Running == pc \in {"round", "bids", "asks", "match", "settle", "advance", "summarize"}

\* a bound on the steps the call in progress has left: those of the current
\* round, those of the rounds not begun, and the summary
StepsLeft ==
    LET round_steps == Len(Buyers) + Len(Sellers) + 4
        rounds_left == max_rounds - Len(rounds_run)
        in_round ==
            CASE pc = "round" -> 0
              [] pc = "bids" -> (Len(Buyers) - idx + 1) + Len(Sellers) + 3
              [] pc = "asks" -> (Len(Sellers) - idx + 1) + 3
              [] pc = "match" -> 3
              [] pc = "settle" -> 2
              [] pc = "advance" -> 1
              [] OTHER -> 0
    IN  IF Running THEN rounds_left * round_steps + in_round + 1 ELSE 0

ValuesOf(agents) == {FirstUnitValue(agents[i]) : i \in DOMAIN agents}

\* the largest first-unit value of a buyer, the smallest of a seller
IsMaxBuyerValue(v) ==
    /\ \E i \in DOMAIN Buyers : FirstUnitValue(Buyers[i]) = v
    /\ \A i \in DOMAIN Buyers : FirstUnitValue(Buyers[i]) <= v

IsMinSellerValue(v) ==
    /\ \E i \in DOMAIN Sellers : FirstUnitValue(Sellers[i]) = v
    /\ \A i \in DOMAIN Sellers : FirstUnitValue(Sellers[i]) >= v

\* C10: while average_prices is empty, _get_market_info returns as
\* last_trade_price and as average_price the midpoint of the largest buyer
\* first-unit value and the smallest seller first-unit value, and 0 trades.
\* This holds of a call in any state and of the value a round was given.
MarketInfoFallback ==
    average_prices = <<>> =>
        LET info == get_market_info(average_prices, successful_trades, current_round)
        IN  /\ info.last_trade_price = info.average_price
            /\ info.total_trades = 0
            /\ \E b \in ValuesOf(Buyers), s \in ValuesOf(Sellers) :
                  /\ IsMaxBuyerValue(b)
                  /\ IsMinSellerValue(s)
                  /\ info.average_price.num * 2 = (b + s) * info.average_price.den
            /\ pc \in {"bids", "asks", "match"} => market_info = info

\* the market information of round 2 after a round whose trades were all
\* rejected
MarketInfoFallbackWitness ==
    /\ average_prices = <<>>
    /\ trade_counter > 0
    /\ current_round = 2
    /\ pc = "bids"
    /\ market_info.total_trades = 0

\* the trades settled in a round before round r, in order
SettledBefore(r) ==
    LET Earlier(t) == t.round < r IN SelectSeq(successful_trades, Earlier)

RECURSIVE SumOfPrices(_)
SumOfPrices(ts) == IF ts = <<>> THEN 0 ELSE Head(ts).price + SumOfPrices(Tail(ts))

\* C11: every generate_bid call of a round r is handed one and the same
\* market information, the one of the start of round r: its current_round is
\* r, its total_trades the number of trades settled before round r and, if
\* there is one, its last_trade_price the price of the last of them and its
\* average_price their mean price.
FreshMarketInfo ==
    \A i \in DOMAIN handed :
        LET info == handed[i].info
            prior == SettledBefore(round_num)
        IN  /\ info = market_info
            /\ info = handed[1].info
            /\ info.current_round = round_num
            /\ round_num = rounds_run[Len(rounds_run)]
            /\ info.total_trades = Len(prior)
            /\ prior # <<>> =>
                  /\ info.last_trade_price.num =
                        prior[Len(prior)].price * info.last_trade_price.den
                  /\ info.average_price.num * Len(prior) =
                        SumOfPrices(prior) * info.average_price.den

\* a buyer and a seller asked in round 2, after a round that settled two
\* trades at different prices, and once round 2 has settled a trade itself
FreshMarketInfoWitness ==
    /\ round_num = 2
    /\ pc = "advance"
    /\ Len(SettledBefore(2)) = 2
    /\ SettledBefore(2)[1].price # SettledBefore(2)[2].price
    /\ Len(successful_trades) > 2
    /\ \E i, j \in DOMAIN handed :
          handed[i].agent \in Range(Buyers) /\ handed[j].agent \in Range(Sellers)

AskedThisRound(a) == \E j \in DOMAIN handed : handed[j].agent = a

\* C12: once the buyers of a round have been gone through, a buyer has been
\* asked for a bid if and only if its goods are below the number of units its
\* preference schedule values; once the sellers have been gone through, a
\* seller has been asked if and only if it holds more than 0 goods; and the
\* round has no more orders than agents asked.
EligibilityByUnits ==
    /\ pc \in {"asks", "match"} =>
          /\ \A i \in DOMAIN Buyers :
                AskedThisRound(Buyers[i]) <=> BuyerEligibleByUnits(Buyers[i])
          /\ Len(bids) <= Cardinality({b \in Range(Buyers) : AskedThisRound(b)})
    /\ pc = "match" =>
          /\ \A i \in DOMAIN Sellers :
                AskedThisRound(Sellers[i]) <=> SellerEligible(Sellers[i])
          /\ Len(asks) <= Cardinality({a \in Range(Sellers) : AskedThisRound(a)})

CallsOf(agent, trade) ==
    Cardinality({j \in DOMAIN finalized : finalized[j] = FinalizeCall(agent, trade)})

\* C13: finalize_trade has been called exactly once on the buyer and exactly
\* once on the seller of every trade of successful_trades, on nobody else,
\* and never for a trade that settlement rejected.
FinalizedOncePerTrade ==
    /\ \A i \in DOMAIN successful_trades :
          /\ CallsOf(successful_trades[i].buyer_id, successful_trades[i]) = 1
          /\ CallsOf(successful_trades[i].seller_id, successful_trades[i]) = 1
    /\ Len(finalized) = 2 * Len(successful_trades)
    /\ \A k \in DOMAIN matched :
          Rejected(matched[k].trade) =>
             \A j \in DOMAIN finalized :
                finalized[j].trade_id # matched[k].trade.trade_id

\* a settlement that rejected one trade and settled another of the same list
FinalizedOncePerTradeWitness ==
    /\ pc = "advance"
    /\ Len(trades) = 2
    /\ \E k \in DOMAIN trades : Rejected(trades[k])
    /\ \E k \in DOMAIN trades :
          /\ ~Rejected(trades[k])
          /\ trades[k] \in Range(successful_trades)
          /\ CallsOf(trades[k].buyer_id, trades[k]) = 1

NegativeSurplus(t) == t.buyer_value - t.price < 0 \/ t.price - t.seller_cost < 0

\* the trades formed so far that settlement does not reject, in order
KeptTrades ==
    LET Kept(m) == ~NegativeSurplus(m.trade)
        kept == SelectSeq(matched, Kept)
    IN  [i \in DOMAIN kept |-> kept[i].trade]

RECURSIVE SumOfSurplus(_)
SumOfSurplus(ts) ==
    IF ts = <<>> THEN 0
    ELSE (Head(ts).buyer_value - Head(ts).price)
         + (Head(ts).price - Head(ts).seller_cost) + SumOfSurplus(Tail(ts))

PricesOf(ts) == [i \in DOMAIN ts |-> ts[i].price]

\* the settlement results are those of the kept trades alone
KeptTradesSettled ==
    /\ successful_trades = KeptTrades
    /\ trade_history = KeptTrades
    /\ average_prices = PricesOf(KeptTrades)
    /\ total_surplus_extracted = SumOfSurplus(KeptTrades)

\* C14 as stated: a rejected trade does not abort the run, and between
\* settlements the auction's state is the one of a run in which the rejected
\* trades were never formed: the settlement results, the trade counter and
\* the order-book log are those of the kept trades alone.
RejectedTradeLeavesNoTrace ==
    (raised = "none" /\ pc # "settle") =>
        /\ KeptTradesSettled
        /\ trade_counter = Len(KeptTrades)
        /\ order_book = [i \in DOMAIN KeptTrades |-> BookEntry(KeptTrades[i])]

\* C14: a trade rejected for negative surplus does not abort the round or the
\* run: a settlement none of whose lookups fails goes on to the end of the
\* round, and between settlements successful_trades, trade_history,
\* average_prices and total_surplus_extracted are those of the kept trades
\* alone, in order; the rejected trade keeps its trade id and its order-book
\* entry, so trade_counter and the order-book log count it.
RejectedTradeOnlyOmitted ==
    /\ []((raised = "none" /\ pc # "settle") =>
            /\ KeptTradesSettled
            /\ trade_counter = Len(matched)
            /\ Len(order_book) = Len(matched))
    /\ [][(pc = "settle" /\ \A k \in DOMAIN trades : ~LookupFails(trades[k])) =>
            /\ pc' = "advance"
            /\ raised' = "none"
            /\ KeptTradesSettled']_vars

\* a settlement whose first trade was rejected and whose second was settled,
\* in a round that is not the last
RejectedTradeOnlyOmittedWitness ==
    /\ pc = "advance"
    /\ round_num < max_rounds
    /\ Len(trades) = 2
    /\ NegativeSurplus(trades[1])
    /\ ~NegativeSurplus(trades[2])
    /\ trades[2] \in Range(successful_trades)
    /\ trade_counter > Len(successful_trades)

\* the bids (asks) of the lists last matched in the order the loop met them:
\* those popped for a trade, then those left
BidsInMatchingOrder == [i \in DOMAIN matched |-> matched[i].bid] \o bids
AsksInMatchingOrder == [i \in DOMAIN matched |-> matched[i].ask] \o asks

\* position of an order in the list it was submitted in
Submitted(order) == order.oid[2]

KeepsSubmissionOrder(s) ==
    \A i, j \in DOMAIN s :
        (i < j /\ s[i].price = s[j].price) => Submitted(s[i]) < Submitted(s[j])

\* C15: among bids of equal price, and among asks of equal price, match_orders
\* meets the orders in the order they were submitted in: the earlier one is
\* matched first, and is the one matched when only one of them is.
StableTieBreaking ==
    book_in # NoBook =>
        /\ KeepsSubmissionOrder(BidsInMatchingOrder)
        /\ KeepsSubmissionOrder(AsksInMatchingOrder)
        /\ Len(BidsInMatchingOrder) = Len(book_in.bids)
        /\ Len(AsksInMatchingOrder) = Len(book_in.asks)

\* two bids of one price and two asks of one price, both pairs matched, and
\* a tie of which only the first order was matched
StableTieBreakingWitness ==
    /\ book_in # NoBook
    /\ Len(matched) >= 1
    /\ \/ /\ Len(matched) = 2
          /\ matched[1].bid.price = matched[2].bid.price
          /\ matched[1].ask.price = matched[2].ask.price
          /\ matched[1].bid.quantity # matched[2].bid.quantity
       \/ /\ Len(matched) = 1
          /\ bids # <<>>
          /\ matched[1].bid.price = bids[1].price
          /\ matched[1].bid.quantity # bids[1].quantity

\* C16: total_surplus_extracted is the sum, over the trades of
\* successful_trades, of (buyer_value - price) + (price - seller_cost), one
\* term per trade whatever its quantity; it is never negative, and no summary
\* meets the condition of the negative-surplus warning.
SurplusIsSumOverTrades ==
    /\ total_surplus_extracted = SumOfSurplus(successful_trades)
    /\ total_surplus_extracted >= 0
    /\ ~warned
    /\ pc = "summarize" => ~NegativeSurplusWarning

\* a summary printed after a trade of quantity 2 with positive surplus was
\* settled and a trade of negative surplus was rejected
SurplusIsSumOverTradesWitness ==
    /\ pc = "returned"
    /\ summaries > 0
    /\ \E i \in DOMAIN successful_trades :
          /\ successful_trades[i].quantity = 2
          /\ successful_trades[i].buyer_value - successful_trades[i].seller_cost > 0
    /\ \E k \in DOMAIN matched :
          matched[k].trade.buyer_value - matched[k].trade.seller_cost < 0

\* no bid, no ask, or every bid below every ask
NoCrossing(bs, as) ==
    \/ bs = <<>>
    \/ as = <<>>
    \/ \A i \in DOMAIN bs, j \in DOMAIN as : bs[i].price < as[j].price

FieldsNow ==
    Snapshot(successful_trades, total_surplus_extracted, average_prices,
             order_book, trade_history, trade_counter)

\* C17: a round whose bid list is empty, whose ask list is empty or whose
\* best bid is below its best ask forms no trade and skips settlement; at its
\* end successful_trades, average_prices, total_surplus_extracted,
\* trade_counter, order_book and trade_history are what they were when the
\* round began, the end of the round adds one to current_round and changes
\* nothing else, and the next round is begun if there is one.
TradelessRoundChangesNothing ==
    /\ []((pc = "advance" /\ NoCrossing(book_in.bids, book_in.asks)) =>
            /\ trades = <<>>
            /\ FieldsNow = round_start
            /\ current_round = round_num)
    /\ [][/\ (pc = "match" /\ NoCrossing(bids, asks)) =>
                /\ trades' = <<>>
                /\ pc' = "advance"
                /\ fields' = fields
                /\ holdings' = holdings
          /\ (pc = "advance" /\ NoCrossing(book_in.bids, book_in.asks)) =>
                /\ current_round' = current_round + 1
                /\ FieldsNow' = round_start
                /\ max_rounds' = max_rounds
                /\ holdings' = holdings
                /\ IF round_num < max_rounds
                   THEN pc' = "round" /\ round_num' = round_num + 1
                   ELSE pc' = "summarize"]_vars

\* the end of a first round that had a bid and an ask that do not cross, with
\* a round to follow
TradelessRoundChangesNothingWitness ==
    /\ pc = "advance"
    /\ round_num = 1
    /\ round_num < max_rounds
    /\ book_in.bids # <<>>
    /\ book_in.asks # <<>>
    /\ NoCrossing(book_in.bids, book_in.asks)

\* C18: once a generate_bid call of round r has failed, run_auction is left:
\* round r is neither matched nor settled, no step follows (no later round,
\* no summary), and successful_trades, average_prices,
\* total_surplus_extracted, trade_counter and the order-book log are as they
\* were when round r began, that is at the end of round r-1.
OrderFailureAbortsLoop ==
    /\ [](raised = "generate_bid" =>
            /\ pc = "aborted"
            /\ rounds_run[Len(rounds_run)] = round_num
            /\ book_in = NoBook
            /\ trades = <<>>
            /\ \A k \in DOMAIN matched : matched[k].trade.round < round_num
            /\ \A i \in DOMAIN successful_trades :
                  successful_trades[i].round < round_num
            /\ summaries < calls
            /\ FieldsNow = round_start)
    /\ [][raised # "generate_bid"]_vars

\* a seller's call failing in round 2, after round 1 settled a trade and
\* round 2 collected a bid
OrderFailureAbortsLoopWitness ==
    /\ raised = "generate_bid"
    /\ round_num = 2
    /\ successful_trades # <<>>
    /\ bids # <<>>
    /\ \E j \in DOMAIN handed : handed[j].agent \in Range(Sellers)

NamesUnknownAgent(t) == t.buyer_id \notin Agents \/ t.seller_id \notin Agents

\* the first trade of ts that names an unknown agent (0 if none does)
FirstUnknown(ts) ==
    IF \E k \in DOMAIN ts : NamesUnknownAgent(ts[k])
    THEN CHOOSE k \in DOMAIN ts :
            /\ NamesUnknownAgent(ts[k])
            /\ \A j \in 1..(k - 1) : ~NamesUnknownAgent(ts[j])
    ELSE 0

NonNegative(t) == ~NegativeSurplus(t)

\* C19: a settlement whose list has a trade naming an unknown buyer or seller
\* fails at the first such trade and leaves run_auction: the trades before it
\* are settled as usual, that trade and those after it are not (no
\* finalize_trade call, nothing added to successful_trades, average_prices or
\* total_surplus_extracted for them), and no step follows, so no later round
\* runs.
UnknownAgentFailsHard ==
    /\ [][(pc = "settle" /\ FirstUnknown(trades) > 0) =>
            LET k == FirstUnknown(trades)
                before == SelectSeq(SubSeq(trades, 1, k - 1), NonNegative)
            IN  /\ pc' = "aborted"
                /\ raised' = "get_agent"
                /\ successful_trades' = successful_trades \o before
                /\ average_prices' = average_prices \o PricesOf(before)
                /\ total_surplus_extracted' =
                      total_surplus_extracted + SumOfSurplus(before)
                /\ Len(finalized') = Len(finalized) + 2 * Len(before)
                /\ \A j \in k..Len(trades), i \in DOMAIN finalized' :
                      finalized'[i].trade_id # trades[j].trade_id]_vars
    /\ [][raised # "get_agent"]_vars

\* a settlement that settled its first trade and failed at its second, in a
\* round that is not the last
UnknownAgentFailsHardWitness ==
    /\ raised = "get_agent"
    /\ pc = "aborted"
    /\ round_num < max_rounds
    /\ Len(trades) = 2
    /\ NamesUnknownAgent(trades[2])
    /\ trades[1] \in Range(successful_trades)
    /\ CallsOf(trades[1].seller_id, trades[1]) = 1

\* the trades at which, and after which, a failed lookup left settlement
LeftByFailure ==
    IF raised = "get_agent"
    THEN {trades[j] : j \in FirstUnknown(trades)..Len(trades)}
    ELSE {}

\* the formed trades that settlement came to and rejected
RejectedBySettlement ==
    {matched[k].trade : k \in {j \in DOMAIN matched :
                                  NegativeSurplus(matched[j].trade)}} \ LeftByFailure

\* between a match and its settlement the trades just formed are not settled
BetweenSteps == pc # "settle"

\* order_book has one entry per trade formed, with total = price * quantity,
\* and get_trade_history() is successful_trades
OneEntryPerFormedTrade ==
    /\ Len(order_book) = trade_counter
    /\ Len(order_book) = Len(matched)
    /\ \A i \in DOMAIN order_book :
          /\ order_book[i].price = matched[i].trade.price
          /\ order_book[i].shares = matched[i].trade.quantity
          /\ order_book[i].total = order_book[i].price * order_book[i].shares
    /\ trade_history = successful_trades
    /\ Len(order_book) >= Len(trade_history)

\* order_book only grows, at its end
OrderBookAppendOnly ==
    /\ Len(order_book') >= Len(order_book)
    /\ SubSeq(order_book', 1, Len(order_book)) = order_book

\* C20 as stated: between steps the order-book log has one entry per trade
\* ever formed and is only appended to, get_trade_history() is
\* successful_trades, and the log is longer than the trade history exactly
\* when settlement rejected some formed trade.
LongerLogIffRejected ==
    /\ [](BetweenSteps =>
            /\ OneEntryPerFormedTrade
            /\ Len(order_book) > Len(trade_history) <=> RejectedBySettlement # {})
    /\ [][OrderBookAppendOnly]_vars

\* C20: between steps the order-book log has one entry per trade ever formed
\* and is only appended to, get_trade_history() is successful_trades, and the
\* log is longer than the trade history exactly when some formed trade was not
\* settled: rejected by settlement, or left unsettled by a lookup that failed.
LongerLogIffUnsettled ==
    /\ [](BetweenSteps =>
            /\ OneEntryPerFormedTrade
            /\ Len(order_book) > Len(trade_history) <=>
                  (RejectedBySettlement # {} \/ LeftByFailure # {}))
    /\ [][OrderBookAppendOnly]_vars

\* a log with the entry of a settled trade of quantity 2 and the entry of a
\* trade of non-negative surplus that a failed lookup left unsettled, no trade
\* having been rejected
LongerLogIffUnsettledWitness ==
    /\ BetweenSteps
    /\ raised = "get_agent"
    /\ RejectedBySettlement = {}
    /\ \E t \in LeftByFailure : ~NegativeSurplus(t)
    /\ \E i \in DOMAIN successful_trades : successful_trades[i].quantity = 2
    /\ Len(order_book) > Len(trade_history)

====
